---- MODULE Spec2Model ----
(***************************************************************************)
(* Model of the request-authentication core of the security plugin:        *)
(* x-pack/plugins/security/server/authentication/authenticator.ts.         *)
(*                                                                         *)
(* The Authenticator drives a chain of authentication providers and is the *)
(* only writer of the session store.  Every public operation (login,       *)
(* authenticate, logout) is an async function; it is modelled as a         *)
(* sequence of steps, one per stretch of code between two suspension       *)
(* points at which the outside world acts (the provider call).  Each       *)
(* request records the store operations and provider calls it performed,   *)
(* in order, in its log.                                                   *)
(*                                                                         *)
(* The module also models the step state of the template creation wizard,  *)
(* x-pack/legacy/plugins/index_management/public/sections/                 *)
(* templates_create/templates_form/templates_form.tsx, whose handlers are  *)
(* the actions of WizardSpec.                                              *)
(***************************************************************************)
EXTENDS Integers, Sequences, FiniteSets, TLC

VARIABLES
  authProviders,  \* options.config.authc.providers, the configured list
  instance,       \* "ok" when the constructor returned, "failed" when it threw
  providers,      \* this.providers: the Map's keys in insertion order
  ttl,            \* this.ttl: <<>> for null, <<n>> for a number of ms
  now,            \* Date.now()
  store,          \* the session storage: <<>> when empty, <<envelope>> otherwise
  call,           \* per request: the position and locals of the running call
  currentStep,      \* TemplatesForm: useState(1)
  maxCompletedStep, \* TemplatesForm: useState(0)
  template,         \* TemplatesForm: useState(defaultTemplate)
  validation,       \* TemplatesForm: useState({isValid: true, errors: {}})
  saveError,        \* TemplatesForm: the saveError prop, FALSE when unset
  handler           \* TemplatesForm: the handler that ran last

authVars == <<authProviders, instance, providers, ttl, now, store, call>>
formVars == <<currentStep, maxCompletedStep, template, validation, saveError, handler>>
vars == <<authProviders, instance, providers, ttl, now, store, call,
          currentStep, maxCompletedStep, template, validation, saveError, handler>>

----------------------------------------------------------------------------
(* Bounds of the model. *)

MaxProviders == 3   \* longest configured provider list
MaxRepeated == 2    \* longest configured provider list that repeats a name
MaxTtl == 1         \* largest session timeout, in ms
MaxNow == 2         \* last instant of the clock

----------------------------------------------------------------------------
(* Values. *)

\* null / undefined of an optional number or object is the empty tuple.
None == <<>>
Some(v) == <<v>>

\* The status code the Authenticator singles out.
Unauthorized == 401

\* Status codes an authentication error may carry.
ErrorStatuses == {Unauthorized, 500}

\* Keys of providerMap (a subset: saml is the one the code names).
ProviderTypes == {"basic", "saml", "token"}

\* A name providerMap does not hold.
UnknownType == "ldap"

\* Opaque provider state values.
States == {"s1", "s2"}

\* The requests in flight. Spec runs the requests of SeqProcs, one at a time.
Procs == {"r1", "r2"}
SeqProcs == {"r1"}

\* Sequences without bound on repetition, up to length n.
SeqsUpTo(S, n) == UNION {[1..k -> S] : k \in 0..n}

NoRepeat(s) == \A i, j \in 1..Len(s) : i # j => s[i] # s[j]

\* Candidate values of config.authc.providers.
Configs ==
  {s \in SeqsUpTo(ProviderTypes \cup {UnknownType}, MaxProviders) :
     Len(s) <= MaxRepeated \/ NoRepeat(s)}

\* Candidate values of config.sessionTimeout (number | null).
TtlValues == {None} \cup {Some(t) : t \in 0..MaxTtl}

Range(s) == {s[i] : i \in 1..Len(s)}

----------------------------------------------------------------------------
(* Outcome types: AuthenticationResult and DeauthenticationResult.         *)
(* state is "undefined" (no intent), "null" (clear) or a provider state.   *)

Result(kind, state, status) == [kind |-> kind, state |-> state, status |-> status]

NoResult == Result("none", "undefined", 0)

OptionalStates == {"undefined", "null"} \cup States

\* What a provider's login or authenticate may resolve to.
AuthenticationResults ==
  {Result("notHandled", "undefined", 0)}
    \cup {Result("succeeded", s, 0) : s \in OptionalStates}
    \cup {Result("redirected", s, 0) : s \in OptionalStates}
    \cup {Result("failed", "undefined", e) : e \in ErrorStatuses}

\* What a provider's logout may resolve to.
DeauthenticationResults ==
  {Result("notHandled", "undefined", 0), Result("redirected", "undefined", 0)}

notHandled(r) == r.kind = "notHandled"
succeeded(r) == r.kind = "succeeded"
failed(r) == r.kind = "failed"
redirected(r) == r.kind = "redirected"
shouldUpdateState(r) == r.state \notin {"undefined", "null"}
shouldClearState(r) == r.state = "null"
getErrorStatusCode(r) == r.status

----------------------------------------------------------------------------
(* The session envelope and the log of what a request did. *)

ProviderSession(provider, expires, state) ==
  [provider |-> provider, expires |-> expires, state |-> state]

\* One entry of a request's log: a store operation (get, set, clear) with the
\* value read or written, a provider call (login, authenticate, logout) with
\* the provider called and the state passed to it, or the return of that call.
Ev(op, who, arg, val) == [op |-> op, who |-> who, arg |-> arg, val |-> val]
GetEv(val) == Ev("get", "", "", val)
SetEv(val) == Ev("set", "", "", val)
ClearEv == Ev("clear", "", "", None)
CallEv(method, who, arg) == Ev(method, who, arg, None)
\* The provider call resolved with result r.
ReturnEv(who, r) == Ev("returned", who, r.kind, Some(r))

\* A storage handle threaded through a stretch of code: the store's content
\* and the operations performed on it so far.
Storage(content, log) == [store |-> content, log |-> log]

StorageSet(st, val) == Storage(Some(val), Append(st.log, SetEv(Some(val))))
StorageClear(st) == Storage(None, Append(st.log, ClearEv))

----------------------------------------------------------------------------
(* Construction. *)

\* new Map(entries): keys in order of first insertion.
RECURSIVE MapKeys(_)
MapKeys(s) ==
  IF s = <<>> THEN <<>>
  ELSE LET init == MapKeys(SubSeq(s, 1, Len(s) - 1))
           last == s[Len(s)]
       IN IF last \in Range(init) THEN init ELSE Append(init, last)

\* instantiateProvider throws for a name providerMap does not hold.
instantiateProviderThrows(providerType) == providerType \notin ProviderTypes

ConstructorThrows_EmptyOnly(cfg) == Len(cfg) = 0

\* Whether the constructor throws for this configured list.
ConstructorThrows(cfg) ==
  \/ Len(cfg) = 0
  \/ \E i \in 1..Len(cfg) : instantiateProviderThrows(cfg[i])

SessionExpires_TtlOnly(t, n) == t

\* this.ttl && Date.now() + this.ttl
SessionExpires(t, n) ==
  IF t = None THEN None
  ELSE IF t[1] = 0 THEN Some(0)
  ELSE Some(n + t[1])

HasProvider_Supported(name) == name \in ProviderTypes

\* this.providers.has(name)
HasProvider(name) == name \in Range(providers)

----------------------------------------------------------------------------
(* Authenticator: private helpers. *)

GetSessionValue_Unchecked(st) ==
  [value |-> st.store,
   storage |-> Storage(st.store, Append(st.log, GetEv(st.store)))]

\* getSessionValue: the session read, and the storage after the read. An
\* envelope naming a provider the registry does not hold is cleared.
GetSessionValue(st) ==
  LET sessionValue == st.store
      read == Storage(st.store, Append(st.log, GetEv(sessionValue)))
  IN IF sessionValue # None /\ ~HasProvider(sessionValue[1].provider)
     THEN [value |-> None, storage |-> StorageClear(read)]
     ELSE [value |-> sessionValue, storage |-> read]

ProviderIterator_Configured(sessionValue) == providers

ProviderIterator_Rotated(sessionValue) ==
  IF sessionValue = None
  THEN Tail(providers) \o <<Head(providers)>>
  ELSE <<sessionValue[1].provider>>
         \o SelectSeq(providers, LAMBDA t : t # sessionValue[1].provider)

\* providerIterator: the provider types in the order they are yielded.
ProviderIterator(sessionValue) ==
  IF sessionValue = None
  THEN providers
  ELSE <<sessionValue[1].provider>>
         \o SelectSeq(providers, LAMBDA t : t # sessionValue[1].provider)

SessionCanBeUpdated_AnyKind(authenticationResult, isSystemAPIRequest) ==
  shouldUpdateState(authenticationResult) \/ ~isSystemAPIRequest

\* updateSessionValue's sessionCanBeUpdated.
SessionCanBeUpdated(authenticationResult, isSystemAPIRequest) ==
  /\ succeeded(authenticationResult) \/ redirected(authenticationResult)
  /\ shouldUpdateState(authenticationResult) \/ ~isSystemAPIRequest

UpdateShouldClear_UnauthorizedOnly(authenticationResult) ==
  /\ failed(authenticationResult)
  /\ getErrorStatusCode(authenticationResult) = Unauthorized

UpdateShouldClear_StateOnly(authenticationResult) ==
  shouldClearState(authenticationResult)

\* updateSessionValue's condition for clearing the session.
UpdateShouldClear(authenticationResult) ==
  \/ shouldClearState(authenticationResult)
  \/ /\ failed(authenticationResult)
     /\ getErrorStatusCode(authenticationResult) = Unauthorized

\* updateSessionValue: the storage after the call.
UpdateSessionValue(st, providerType, authenticationResult, existingSession, isSystemAPIRequest) ==
  IF existingSession = None /\ ~shouldUpdateState(authenticationResult)
  THEN st
  ELSE IF UpdateShouldClear(authenticationResult)
  THEN StorageClear(st)
  ELSE IF SessionCanBeUpdated(authenticationResult, isSystemAPIRequest)
  THEN StorageSet(st, ProviderSession(
         providerType,
         SessionExpires(ttl, now),
         IF shouldUpdateState(authenticationResult)
         THEN authenticationResult.state
         ELSE existingSession[1].state))
  ELSE st

\* login's shouldClearSession.
ShouldClearSession(authenticationResult) ==
  \/ shouldClearState(authenticationResult)
  \/ /\ failed(authenticationResult)
     /\ getErrorStatusCode(authenticationResult) = Unauthorized

LoginUpdateSession_SetUnlessClear(st, attemptProvider, authenticationResult, existingSession) ==
  IF existingSession # None /\ ShouldClearSession(authenticationResult)
  THEN StorageClear(st)
  ELSE IF ~shouldClearState(authenticationResult)
  THEN StorageSet(st, ProviderSession(
         attemptProvider,
         SessionExpires(ttl, now),
         authenticationResult.state))
  ELSE st

\* login, after provider.login resolved: the storage after the session
\* mutation decision.
LoginUpdateSession(st, attemptProvider, authenticationResult, existingSession) ==
  IF existingSession # None /\ ShouldClearSession(authenticationResult)
  THEN StorageClear(st)
  ELSE IF shouldUpdateState(authenticationResult)
  THEN StorageSet(st, ProviderSession(
         attemptProvider,
         SessionExpires(ttl, now),
         authenticationResult.state))
  ELSE st

BelongsToOther_Never(existingSession, attemptProvider) == FALSE

\* login: an existing session that belongs to another provider than the one
\* requested to perform the login.
BelongsToOther(existingSession, attemptProvider) ==
  existingSession # None /\ existingSession[1].provider # attemptProvider

Handled_SucceededOnly(authenticationResult) == succeeded(authenticationResult)

\* authenticate: the outcomes that end the iteration over the providers.
Handled(authenticationResult) ==
  \/ failed(authenticationResult)
  \/ succeeded(authenticationResult)
  \/ redirected(authenticationResult)

LogoutClear_Skip(st) == st

\* logout: the session is cleared before the owning provider is asked.
LogoutClear(st) == StorageClear(st)

SAMLLogoutApplies_AnyRequest(isSAMLRequestQuery) == HasProvider("saml")

SAMLLogoutApplies_AnyRegistry(isSAMLRequestQuery) == isSAMLRequestQuery

\* logout without a session: whether the saml provider is asked.
SAMLLogoutApplies(isSAMLRequestQuery) ==
  isSAMLRequestQuery /\ HasProvider("saml")

StateOf_Null(session) == "null"

\* The state handed to a provider: the session's state, or null.
StateOf(session) == IF session = None THEN "null" ELSE session[1].state

----------------------------------------------------------------------------
(* Requests. *)

IdleCall ==
  [pc |-> "idle", op |-> "none", valid |-> TRUE, attempt |-> "", sys |-> FALSE,
   samlq |-> FALSE,
   session |-> None, order |-> <<>>, idx |-> 0, result |-> NoResult,
   log |-> <<>>]

\* A request slot is free before its first call and after a call completed.
Free(p) == call[p].pc \in {"idle", "done", "threw"}

\* Provider names a login attempt may carry; "" is the missing name.
AttemptNames == ProviderTypes \cup {UnknownType, ""}

assertLoginAttemptThrows_Never(attemptProvider) == FALSE

\* assertRequest / assertLoginAttempt
assertRequestThrows(validRequest) == ~validRequest
assertLoginAttemptThrows(attemptProvider) == attemptProvider = ""

\* What no operation of the Authenticator writes: its configuration, and
\* the wizard's form.
Config == UNCHANGED <<authProviders, instance, providers, ttl, formVars>>

----------------------------------------------------------------------------
(* TemplatesForm: values. *)

\* Opaque values of the template's fields.
Names == {"", "t1"}
IndexPatterns == {"[]", "[p*]"}
MappingsValues == {"{}", "m1"}

defaultTemplate == [name |-> "", indexPatterns |-> "[]", mappings |-> "{}"]

\* What updateTemplate may be handed: one field of the template.
PartialTemplates ==
  {[name |-> n] : n \in Names}
    \cup {[indexPatterns |-> i] : i \in IndexPatterns}
    \cup {[mappings |-> m] : m \in MappingsValues}

\* { ...template, ...updatedTemplate }
Spread(base, over) ==
  [k \in DOMAIN base |-> IF k \in DOMAIN over THEN over[k] ELSE base[k]]

stepComponentMap ==
  <<"StepLogistics", "StepSettings", "StepMappingsWithEditor", "StepAliases",
    "StepReview">>

lastStep == Len(stepComponentMap)

\* The mappings step, which validates through the mappings editor.
MappingsStep == CHOOSE i \in 1..lastStep : stepComponentMap[i] = "StepMappingsWithEditor"

Max(a, b) == IF a >= b THEN a ELSE b

\* The component's state at mount.
FormMounted ==
  /\ currentStep = 1
  /\ maxCompletedStep = 0
  /\ template = defaultTemplate
  /\ validation = [isValid |-> TRUE]
  /\ saveError = FALSE
  /\ handler = "mount"

----------------------------------------------------------------------------
(* Authenticator.login *)

\* From the call to the suspension at provider.login.
Login(p, validRequest, attemptProvider) ==
  /\ instance = "ok"
  /\ Free(p)
  /\ LET new == [IdleCall EXCEPT !.op = "login", !.valid = validRequest,
                                   !.attempt = attemptProvider]
     IN IF assertRequestThrows(validRequest)
           \/ assertLoginAttemptThrows(attemptProvider)
        THEN /\ call' = [call EXCEPT ![p] = [new EXCEPT !.pc = "threw"]]
             /\ UNCHANGED store
        ELSE IF ~HasProvider(attemptProvider)
        THEN /\ call' = [call EXCEPT ![p] =
                  [new EXCEPT !.pc = "done",
                              !.result = Result("notHandled", "undefined", 0)]]
             /\ UNCHANGED store
        ELSE LET got == GetSessionValue(Storage(store, <<>>))
                 foreign == BelongsToOther(got.value, attemptProvider)
                 st == IF foreign THEN StorageClear(got.storage) ELSE got.storage
                 existingSession == IF foreign THEN None ELSE got.value
             IN /\ store' = st.store
                /\ call' = [call EXCEPT ![p] =
                     [new EXCEPT !.pc = "login_provider",
                                 !.session = existingSession,
                                 !.log = Append(st.log,
                                           CallEv("login", attemptProvider,
                                                  StateOf(existingSession)))]]
  /\ Config
  /\ UNCHANGED now

\* provider.login resolved with authenticationResult: session mutation, return.
LoginReturns(p, authenticationResult) ==
  /\ call[p].pc = "login_provider"
  /\ LET returned == Append(call[p].log,
                             ReturnEv(call[p].attempt, authenticationResult))
         st == LoginUpdateSession(Storage(store, returned), call[p].attempt,
                                  authenticationResult, call[p].session)
     IN /\ store' = st.store
        /\ call' = [call EXCEPT ![p].pc = "done",
                                ![p].result = authenticationResult,
                                ![p].log = st.log]
  /\ Config
  /\ UNCHANGED now

\* A provider call rejected: the awaiting async function rejects with it.
ProviderThrows(p) ==
  /\ call[p].pc \in {"login_provider", "authenticate_provider", "logout_provider"}
  /\ call' = [call EXCEPT ![p].pc = "threw"]
  /\ Config
  /\ UNCHANGED <<now, store>>

----------------------------------------------------------------------------
(* Authenticator.authenticate *)

OwnsSession_Any(session, providerType) == session # None

\* Whether the session read by this request was set by providerType.
OwnsSession(session, providerType) ==
  session # None /\ session[1].provider = providerType

AuthenticateCall_NoState(session, providerType) ==
  CallEv("authenticate", providerType, "null")

\* The log entry of provider.authenticate(request, ownsSession ? state : null).
AuthenticateCall(session, providerType) ==
  CallEv("authenticate", providerType,
         IF OwnsSession(session, providerType) THEN session[1].state ELSE "null")

\* From the call to the suspension at the first provider.authenticate.
Authenticate(p, validRequest, isSystemAPIRequest) ==
  /\ instance = "ok"
  /\ Free(p)
  /\ LET new == [IdleCall EXCEPT !.op = "authenticate", !.valid = validRequest,
                                   !.sys = isSystemAPIRequest]
     IN IF assertRequestThrows(validRequest)
        THEN /\ call' = [call EXCEPT ![p] = [new EXCEPT !.pc = "threw"]]
             /\ UNCHANGED store
        ELSE LET got == GetSessionValue(Storage(store, <<>>))
                 existingSession == got.value
                 order == ProviderIterator(existingSession)
             IN /\ store' = got.storage.store
                /\ call' = [call EXCEPT ![p] =
                     [new EXCEPT !.pc = "authenticate_provider",
                                 !.session = existingSession,
                                 !.order = order,
                                 !.idx = 1,
                                 !.log = Append(got.storage.log,
                                           AuthenticateCall(existingSession, order[1]))]]
  /\ Config
  /\ UNCHANGED now

\* provider.authenticate of the provider at idx resolved: session update, then
\* return, or the call of the next provider of the iterator.
AuthenticateReturns(p, authenticationResult) ==
  /\ call[p].pc = "authenticate_provider"
  /\ LET c == call[p]
         providerType == c.order[c.idx]
         ownsSession == OwnsSession(c.session, providerType)
         returned == Append(c.log, ReturnEv(providerType, authenticationResult))
         st == UpdateSessionValue(Storage(store, returned), providerType,
                                  authenticationResult,
                                  IF ownsSession THEN c.session ELSE None,
                                  c.sys)
         handled == Handled(authenticationResult)
     IN /\ store' = st.store
        /\ IF handled \/ c.idx = Len(c.order)
           THEN call' = [call EXCEPT ![p].pc = "done",
                                     ![p].result = authenticationResult,
                                     ![p].log = st.log]
           ELSE call' = [call EXCEPT ![p].idx = c.idx + 1,
                                     ![p].result = authenticationResult,
                                     ![p].log = Append(st.log,
                                         AuthenticateCall(c.session, c.order[c.idx + 1]))]
  /\ Config
  /\ UNCHANGED now

----------------------------------------------------------------------------
(* Authenticator.logout *)

\* From the call to the suspension at provider.logout, or to the return.
Logout(p, validRequest, isSAMLRequestQuery) ==
  /\ instance = "ok"
  /\ Free(p)
  /\ LET new == [IdleCall EXCEPT !.op = "logout", !.valid = validRequest,
                                   !.samlq = isSAMLRequestQuery]
     IN IF assertRequestThrows(validRequest)
        THEN /\ call' = [call EXCEPT ![p] = [new EXCEPT !.pc = "threw"]]
             /\ UNCHANGED store
        ELSE LET got == GetSessionValue(Storage(store, <<>>))
                 sessionValue == got.value
             IN IF sessionValue # None
                THEN LET st == LogoutClear(got.storage)
                     IN /\ store' = st.store
                        /\ call' = [call EXCEPT ![p] =
                             [new EXCEPT !.pc = "logout_provider",
                                         !.session = sessionValue,
                                         !.log = Append(st.log,
                                                   CallEv("logout",
                                                          sessionValue[1].provider,
                                                          sessionValue[1].state))]]
                ELSE IF SAMLLogoutApplies(isSAMLRequestQuery)
                THEN /\ store' = got.storage.store
                     /\ call' = [call EXCEPT ![p] =
                          [new EXCEPT !.pc = "logout_provider",
                                      !.log = Append(got.storage.log,
                                                CallEv("logout", "saml", "undefined"))]]
                ELSE /\ store' = got.storage.store
                     /\ call' = [call EXCEPT ![p] =
                          [new EXCEPT !.pc = "done",
                                      !.result = Result("notHandled", "undefined", 0),
                                      !.log = got.storage.log]]
  /\ Config
  /\ UNCHANGED now

\* provider.logout resolved: its outcome is returned.
LogoutReturns(p, deauthenticationResult) ==
  /\ call[p].pc = "logout_provider"
  /\ call' = [call EXCEPT
       ![p].pc = "done",
       ![p].result = deauthenticationResult,
       ![p].log = Append(call[p].log,
                         ReturnEv(call[p].log[Len(call[p].log)].who,
                                  deauthenticationResult))]
  /\ Config
  /\ UNCHANGED <<now, store>>

----------------------------------------------------------------------------
(* The clock, and the specification. *)

Tick ==
  /\ now < MaxNow
  /\ now' = now + 1
  /\ Config
  /\ UNCHANGED <<store, call>>

\* Session envelopes left in the store by an earlier process, possibly under
\* another configuration.
InitialSessions ==
  {ProviderSession(t, None, s) : t \in ProviderTypes \cup {UnknownType}, s \in States}

\* The state after new Authenticator(options).
Init ==
  /\ authProviders \in Configs
  /\ instance = IF ConstructorThrows(authProviders) THEN "failed" ELSE "ok"
  /\ providers = IF ConstructorThrows(authProviders) THEN <<>> ELSE MapKeys(authProviders)
  /\ ttl \in TtlValues
  /\ now = 1
  /\ store \in {None} \cup {Some(e) : e \in InitialSessions}
  /\ call = [p \in Procs |-> IdleCall]
  /\ FormMounted

Step(p) ==
  \/ \E v \in BOOLEAN, a \in AttemptNames : Login(p, v, a)
  \/ \E r \in AuthenticationResults : LoginReturns(p, r)
  \/ \E v \in BOOLEAN, sys \in BOOLEAN : Authenticate(p, v, sys)
  \/ \E r \in AuthenticationResults : AuthenticateReturns(p, r)
  \/ \E v \in BOOLEAN, q \in BOOLEAN : Logout(p, v, q)
  \/ \E r \in DeauthenticationResults : LogoutReturns(p, r)
  \/ ProviderThrows(p)

Next ==
  \/ \E p \in SeqProcs : Step(p)
  \/ Tick

Spec == Init /\ [][Next]_vars

\* The Authenticator constructed over an empty session store.
FreshInit == Init /\ store = None

FreshSpec == FreshInit /\ [][Next]_vars

\* Two requests of the same client in flight at once, each one authenticate
\* or logout call: an async operation runs up to its await of the provider
\* call, and the requests interleave there. The store holds a session of the
\* first configured provider.
ConcProviders == <<"basic", "saml">>

ConcInit ==
  /\ authProviders = ConcProviders
  /\ instance = IF ConstructorThrows(authProviders) THEN "failed" ELSE "ok"
  /\ providers = IF ConstructorThrows(authProviders) THEN <<>> ELSE MapKeys(authProviders)
  /\ ttl \in {None, Some(MaxTtl)}
  /\ now = 1
  /\ store = Some(ProviderSession(ConcProviders[1], None, "s1"))
  /\ call = [p \in Procs |-> IdleCall]
  /\ FormMounted

ConcStep(p) ==
  \/ /\ call[p].pc = "idle"
     /\ \/ \E v \in BOOLEAN, sys \in BOOLEAN : Authenticate(p, v, sys)
        \/ \E v \in BOOLEAN, q \in BOOLEAN : Logout(p, v, q)
  \/ \E r \in AuthenticationResults : AuthenticateReturns(p, r)
  \/ \E r \in DeauthenticationResults : LogoutReturns(p, r)
  \/ ProviderThrows(p)

ConcNext ==
  \/ \E p \in Procs : ConcStep(p)
  \/ Tick

ConcSpec == ConcInit /\ [][ConcNext]_vars

\* The Authenticator constructed with authc.providers = [token, saml] and
\* sessionTimeout = 60 minutes, over an empty session store.
ScenarioProviders == <<"token", "saml">>
ScenarioTtl == 60 * 60 * 1000

ScenarioInit ==
  /\ authProviders = ScenarioProviders
  /\ instance = IF ConstructorThrows(authProviders) THEN "failed" ELSE "ok"
  /\ providers = IF ConstructorThrows(authProviders) THEN <<>> ELSE MapKeys(authProviders)
  /\ ttl = Some(ScenarioTtl)
  /\ now = 1
  /\ store = None
  /\ call = [p \in Procs |-> IdleCall]
  /\ FormMounted

ScenarioSpec == ScenarioInit /\ [][Next]_vars

----------------------------------------------------------------------------
(* TemplatesForm: handlers. *)

StepIsLocked_Never(step) == FALSE

\* updateCurrentStep's early return: the step before it is not completed.
StepIsLocked(step) == maxCompletedStep < step - 1

\* updateTemplate
updateTemplate(updatedTemplate) ==
  /\ handler' = "updateTemplate"
  /\ template' = Spread(template, updatedTemplate)
  /\ UNCHANGED <<currentStep, maxCompletedStep, validation, saveError>>
  /\ UNCHANGED authVars

\* updateCurrentStep, called by the step list and the step components.
updateCurrentStep(step) ==
  /\ handler' = "updateCurrentStep"
  /\ LET prevStep == step - 1
     IN IF StepIsLocked(step)
        THEN UNCHANGED <<currentStep, maxCompletedStep, saveError>>
        ELSE /\ currentStep' = step
             /\ maxCompletedStep' = prevStep
             /\ saveError' = FALSE
  /\ UNCHANGED <<template, validation>>
  /\ UNCHANGED authVars

\* onBack: the Back button is rendered when currentStep > 1.
onBack ==
  /\ currentStep > 1
  /\ handler' = "onBack"
  /\ LET prevStep == currentStep - 1
     IN /\ currentStep' = prevStep
        /\ maxCompletedStep' = prevStep - 1
        /\ saveError' = FALSE
  /\ UNCHANGED <<template, validation>>
  /\ UNCHANGED authVars

\* onNext: the Next button is rendered when currentStep < lastStep.
\* templateIsValid is validateTemplate(template).isValid; isMappingValid and
\* data are what the mappings editor's handler returns.
onNext(templateIsValid, isMappingValid, data) ==
  /\ currentStep < lastStep
  /\ handler' = "onNext"
  /\ LET nextStep == currentStep + 1
         newValidation ==
           IF currentStep = MappingsStep /\ ~isMappingValid
           THEN [isValid |-> FALSE]
           ELSE [isValid |-> templateIsValid]
     IN /\ template' = IF currentStep = MappingsStep
                       THEN Spread(template, [mappings |-> data])
                       ELSE template
        /\ validation' = newValidation
        /\ IF newValidation.isValid
           THEN /\ maxCompletedStep' = Max(currentStep, maxCompletedStep)
                /\ currentStep' = nextStep
           ELSE UNCHANGED <<currentStep, maxCompletedStep>>
  /\ UNCHANGED saveError
  /\ UNCHANGED authVars

\* The save button, rendered on the last step: the parent saves the template
\* and hands back saveError.
onSave(error) ==
  /\ currentStep = lastStep
  /\ handler' = "onSave"
  /\ saveError' = error
  /\ UNCHANGED <<currentStep, maxCompletedStep, template, validation>>
  /\ UNCHANGED authVars

\* The wizard alone: no Authenticator is constructed.
WizardInit ==
  /\ FormMounted
  /\ authProviders = <<>>
  /\ instance = "failed"
  /\ providers = <<>>
  /\ ttl = None
  /\ now = 1
  /\ store = None
  /\ call = [p \in Procs |-> IdleCall]

WizardNext ==
  \/ \E u \in PartialTemplates : updateTemplate(u)
  \/ \E step \in 1..lastStep : updateCurrentStep(step)
  \/ onBack
  \/ \E v \in BOOLEAN, m \in BOOLEAN, d \in MappingsValues : onNext(v, m, d)
  \/ \E e \in BOOLEAN : onSave(e)

WizardSpec == WizardInit /\ [][WizardNext]_vars

----------------------------------------------------------------------------
(* Properties. *)

CallOps == {"login", "authenticate", "logout"}

\* The places of a log that hold a provider call, a store mutation.
CallsAt(log) == {i \in 1..Len(log) : log[i].op \in CallOps}
MutationsAt(log) == {i \in 1..Len(log) : log[i].op \in {"set", "clear"}}

\* The request read a session whose provider the registry holds.
ReadValidSession(c) ==
  /\ c.log # <<>>
  /\ c.log[1].op = "get"
  /\ c.log[1].val # None
  /\ c.log[1].val[1].provider \in Range(providers)

\* C1: a login whose attempt names a provider that is not in the registry
\* returns not-handled in its first step, having called no provider and having
\* done nothing to the session store, whatever the store holds.
C1_LoginUnconfigured ==
  [][\A p \in Procs :
       (/\ Free(p)
        /\ call'[p].op = "login"
        /\ call'[p].pc # "threw"
        /\ call'[p].attempt \notin Range(providers))
       => /\ call'[p].pc = "done"
          /\ notHandled(call'[p].result)
          /\ call'[p].log = <<>>
          /\ store' = store]_vars

C1_Witness ==
  \E p \in Procs :
    /\ call[p].op = "login"
    /\ call[p].pc = "done"
    /\ call[p].attempt \in ProviderTypes \ Range(providers)
    /\ Len(providers) >= 1
    /\ store # None
    /\ store[1].provider \in Range(providers)

\* C2: when login targets a configured provider Q and reads a session owned by
\* another configured provider P, the store is cleared before Q.login is
\* called, the store is empty while Q.login runs, and Q.login is the only
\* provider call and is passed no state.
C2_LoginSupersedesForeignSession ==
  \A p \in Procs :
    LET c == call[p]
    IN (/\ c.op = "login"
        /\ ReadValidSession(c)
        /\ c.log[1].val[1].provider # c.attempt)
       => /\ Len(c.log) >= 3
          /\ c.log[2] = ClearEv
          /\ c.log[3] = CallEv("login", c.attempt, "null")
          /\ CallsAt(c.log) = {3}
          /\ c.pc = "login_provider" => store = None

C2_Witness ==
  \E p \in Procs :
    /\ call[p].op = "login"
    /\ call[p].pc = "login_provider"
    /\ ReadValidSession(call[p])
    /\ call[p].log[1].val[1].provider # call[p].attempt

\* The expiry the specification gives a session written at instant n.
ExpiresAt(n) == IF ttl = None THEN None ELSE Some(n + ttl[1])

\* A provider call of request p resolves in this step and the call returns.
ReturnsNow(p) ==
  /\ call[p].pc \in {"login_provider", "authenticate_provider"}
  /\ call'[p].pc = "done"
  /\ Len(call'[p].log) > Len(call[p].log)
  /\ call'[p].log[Len(call[p].log) + 1].op = "returned"

\* The provider whose call resolved in this step, and what it resolved to.
Acting(p) == call'[p].log[Len(call[p].log) + 1].who
Outcome(p) == call'[p].log[Len(call[p].log) + 1].val[1]

\* C3: when login or authenticate returns a succeeded outcome that requests a
\* state update, the store then holds the acting provider, the outcome's
\* state, and expires = now + ttl, or no expiry when ttl is unset.
C3_UpdateStoresSession ==
  [][\A p \in Procs :
       (/\ ReturnsNow(p)
        /\ succeeded(Outcome(p))
        /\ shouldUpdateState(Outcome(p)))
       => store' = Some(ProviderSession(Acting(p), ExpiresAt(now), Outcome(p).state))]_vars

\* The outcome the finished call of c returned is an unauthorized failure, and
\* a session was in the store when the call read it.
UnauthorizedWithSession(c) ==
  /\ c.op \in {"login", "authenticate"}
  /\ c.pc = "done"
  /\ c.result.kind = "failed"
  /\ c.result.status = Unauthorized
  /\ c.log[1].val # None

\* The provider whose call resolved last in the log of c.
LastActing(c) == c.log[CHOOSE i \in 1..Len(c.log) :
                         /\ c.log[i].op = "returned"
                         /\ \A j \in (i + 1)..Len(c.log) : c.log[j].op # "returned"].who

\* C4 as stated: after a call that returned an unauthorized failure, the
\* session that existed when the call started is gone from the store, whoever
\* owned it.
C4_UnauthorizedClearsAnySession ==
  \A p \in Procs : UnauthorizedWithSession(call[p]) => store = None

\* C4 as amended: after a call that returned an unauthorized failure, the
\* session that existed when the call started is gone from the store if the
\* call is a login, or if the failing provider owns the session, or if the
\* session names a provider that is not configured; after an authenticate in
\* which a provider that does not own the session failed, the session is still
\* in the store, unchanged.
C4_UnauthorizedClearsOwnedSession ==
  \A p \in Procs :
    LET c == call[p]
    IN UnauthorizedWithSession(c)
       => IF \/ c.op = "login"
             \/ c.log[1].val[1].provider \notin Range(providers)
             \/ c.log[1].val[1].provider = LastActing(c)
          THEN store = None
          ELSE store = c.log[1].val

C4_Witness ==
  \E p \in Procs :
    /\ UnauthorizedWithSession(call[p])
    /\ call[p].op = "authenticate"
    /\ call[p].log[1].val[1].provider = LastActing(call[p])
    /\ store = None

\* The provider calls of an authenticate request, in the order they were made.
AuthenticateCalls(c) == SelectSeq(c.log, LAMBDA e : e.op = "authenticate")

\* The place of a provider in the configured order.
Pos(name) == CHOOSE i \in 1..Len(providers) : providers[i] = name

\* C5: authenticate calls the providers in configured order when it read no
\* valid session; when it read one, the owner is called first and then the
\* other providers in configured order, the owner never a second time.
C5_ProviderOrder ==
  \A p \in Procs :
    LET c == call[p]
        calls == AuthenticateCalls(c)
        n == Len(calls)
    IN (c.op = "authenticate" /\ c.log # <<>>)
       => IF ReadValidSession(c)
          THEN LET owner == c.log[1].val[1].provider
               IN /\ n >= 1
                  /\ calls[1].who = owner
                  /\ \A i \in 2..n :
                       /\ calls[i].who # owner
                       /\ calls[i].who \in Range(providers)
                       /\ {providers[k] : k \in 1..(Pos(calls[i].who) - 1)} \ {owner}
                            = {calls[j].who : j \in 2..(i - 1)}
          ELSE /\ n >= 1
               /\ n <= Len(providers)
               /\ \A i \in 1..n : calls[i].who = providers[i]

C5_Witness ==
  \E p \in Procs :
    /\ call[p].op = "authenticate"
    /\ call[p].pc = "done"
    /\ ReadValidSession(call[p])
    /\ Len(providers) = 3
    /\ call[p].log[1].val[1].provider = providers[3]
    /\ Len(AuthenticateCalls(call[p])) = 3

HandledKinds == {"failed", "succeeded", "redirected"}

\* C6: in authenticate no provider is called after one resolved to failed,
\* succeeded or redirected, and that outcome is the one returned; not-handled
\* is returned only after every configured provider was called and resolved to
\* not-handled; no provider is called twice, so at most Len(providers) calls
\* are made.
C6_StopsAtFirstHandled ==
  \A p \in Procs :
    LET c == call[p]
        calls == AuthenticateCalls(c)
    IN c.op = "authenticate"
       => /\ \A i, j \in 1..Len(calls) : i # j => calls[i].who # calls[j].who
          /\ Len(calls) <= Len(providers)
          /\ \A i \in 1..Len(c.log) :
               (c.log[i].op = "returned" /\ c.log[i].arg \in HandledKinds)
               => /\ \A j \in CallsAt(c.log) : j < i
                  /\ c.pc = "done"
                  /\ c.result = c.log[i].val[1]
          /\ (c.pc = "done" /\ c.result.kind = "notHandled")
               => /\ {calls[i].who : i \in 1..Len(calls)} = Range(providers)
                  /\ \A i \in 1..Len(c.log) :
                       c.log[i].op = "returned" => c.log[i].arg = "notHandled"
          /\ c.pc = "done" => c.result.kind \in HandledKinds \cup {"notHandled"}

C6_Witness ==
  \E p \in Procs :
    /\ call[p].op = "authenticate"
    /\ call[p].pc = "done"
    /\ Len(providers) = 3
    /\ Len(AuthenticateCalls(call[p])) = 2
    /\ call[p].result.kind = "failed"

\* C7: in authenticate on a system request, when the provider that owns the
\* session resolves to succeeded, the store is left as it is if the outcome
\* carries no state, and holds the outcome's state with expires = now + ttl
\* (no expiry when ttl is unset) if the outcome requests a state update.
C7_SystemRequestExtension ==
  [][\A p \in Procs :
       (/\ ReturnsNow(p)
        /\ call[p].op = "authenticate"
        /\ call[p].sys
        /\ ReadValidSession(call[p])
        /\ call[p].log[1].val[1].provider = Acting(p)
        /\ succeeded(Outcome(p)))
       => /\ Outcome(p).state = "undefined" => store' = store
          /\ shouldUpdateState(Outcome(p))
               => store' = Some(ProviderSession(Acting(p), ExpiresAt(now),
                                                Outcome(p).state))]_vars

\* C8: a logout that reads an empty store on a request without a SAML query
\* returns not-handled at once: its log holds the read alone (no set, no
\* clear, no provider call) and the store is still empty.
C8_LogoutNothingToDo ==
  \A p \in Procs :
    LET c == call[p]
    IN (/\ c.op = "logout"
        /\ c.log # <<>>
        /\ c.log[1] = GetEv(None)
        /\ ~c.samlq)
       => /\ c.pc = "done"
          /\ c.result.kind = "notHandled"
          /\ c.log = <<GetEv(None)>>
          /\ store = None

C8_Witness ==
  \E p \in Procs :
    /\ call[p].op = "logout"
    /\ call[p].pc = "done"
    /\ call[p].log = <<GetEv(None)>>
    /\ ~call[p].samlq
    /\ "saml" \in Range(providers)

\* C9: a logout that reads a session owned by a configured provider P clears
\* the store and then calls P.logout with the session's state, once; the
\* store is empty from then on, whether P.logout is still running, returned
\* or threw, and the outcome returned is the one P.logout resolved to.
C9_LogoutClearsThenDelegates ==
  \A p \in Procs :
    LET c == call[p]
    IN (c.op = "logout" /\ ReadValidSession(c))
       => /\ Len(c.log) >= 3
          /\ c.log[2] = ClearEv
          /\ c.log[3] = CallEv("logout", c.log[1].val[1].provider,
                               c.log[1].val[1].state)
          /\ CallsAt(c.log) = {3}
          /\ MutationsAt(c.log) = {2}
          /\ store = None
          /\ c.pc \in {"logout_provider", "done", "threw"}
          /\ c.pc = "done"
               => /\ Len(c.log) = 4
                  /\ c.log[4].op = "returned"
                  /\ c.result = c.log[4].val[1]

C9_Witness ==
  \E p \in Procs :
    /\ call[p].op = "logout"
    /\ ReadValidSession(call[p])
    /\ call[p].pc = "done"
    /\ call[p].result.kind = "redirected"
    /\ store = None

\* C10: a logout that reads no valid session calls a provider if and only if
\* the request carries a SAML query and saml is configured; the call is then
\* the zero-state logout of saml, made once; otherwise not-handled is returned
\* and no provider is called.
C10_LogoutWithoutSession ==
  \A p \in Procs :
    LET c == call[p]
        delegated == CallsAt(c.log) # {}
    IN (c.op = "logout" /\ c.log # <<>> /\ ~ReadValidSession(c))
       => /\ delegated <=> (c.samlq /\ "saml" \in Range(providers))
          /\ \A i \in CallsAt(c.log) : c.log[i] = CallEv("logout", "saml", "undefined")
          /\ Cardinality(CallsAt(c.log)) <= 1
          /\ ~delegated => (c.pc = "done" /\ c.result.kind = "notHandled")

C10_Witness ==
  \E p \in Procs :
    /\ call[p].op = "logout"
    /\ call[p].pc = "logout_provider"
    /\ call[p].log # <<>>
    /\ call[p].log[1].val # None
    /\ ~ReadValidSession(call[p])
    /\ call[p].samlq
    /\ CallsAt(call[p].log) # {}

\* The finished call c is a login that wrote a session, and the store still
\* holds what it wrote.
LoginStored(c) ==
  /\ c.op = "login"
  /\ c.pc = "done"
  /\ c.log # <<>>
  /\ c.log[Len(c.log)].op = "set"
  /\ store = c.log[Len(c.log)].val

\* The authenticate call that follows a login that stored a session reads that
\* session and first calls its owner, with the stored state.
RoundTripPassesState(p) ==
  (/\ LoginStored(call[p])
   /\ call'[p].op = "authenticate"
   /\ call'[p].pc # "threw")
  => /\ Len(call'[p].log) >= 2
     /\ call'[p].log[1] = GetEv(store)
     /\ call'[p].log[2] = CallEv("authenticate", store[1].provider, store[1].state)

\* An authenticate call of request p that read a valid session returns in
\* this step.
AuthenticateEndsNow(p) ==
  /\ call[p].pc = "authenticate_provider"
  /\ call'[p].pc = "done"
  /\ ReadValidSession(call'[p])

\* The session the store holds after the step is the one request p read, as
\* far as provider and state go.
StillStored(p) ==
  /\ store' # None
  /\ store'[1].provider = call'[p].log[1].val[1].provider
  /\ store'[1].state = call'[p].log[1].val[1].state

\* C11 as stated: the authenticate after a login that stored state s under P
\* passes s to P.authenticate first, and if P's outcome carries no state
\* update, the store still holds s under P when the authenticate returns.
C11_RoundTrip ==
  [][\A p \in Procs :
       /\ RoundTripPassesState(p)
       /\ (/\ AuthenticateEndsNow(p)
           /\ ~shouldUpdateState(call'[p].log[3].val[1]))
          => StillStored(p)]_vars

\* The outcome r of the session's owner neither asks to clear the session nor
\* is an unauthorized failure.
KeepsSession(r) ==
  /\ r.state # "null"
  /\ ~(r.kind = "failed" /\ r.status = Unauthorized)

\* C11 as amended: the authenticate after a login that stored state s under P
\* passes s to P.authenticate first; if P's outcome carries no state update,
\* no clear request and is not an unauthorized failure, and no later provider
\* asks for a state update, the store still holds s under P when the
\* authenticate returns.
C11_RoundTripUnlessInvalidated ==
  [][\A p \in Procs :
       /\ RoundTripPassesState(p)
       /\ (/\ AuthenticateEndsNow(p)
           /\ KeepsSession(call'[p].log[3].val[1])
           /\ \A i \in 1..Len(call'[p].log) :
                call'[p].log[i].op = "returned"
                => ~shouldUpdateState(call'[p].log[i].val[1]))
          => StillStored(p)]_vars

C11_Witness ==
  \E p \in Procs :
    /\ call[p].op = "authenticate"
    /\ call[p].pc = "done"
    /\ ReadValidSession(call[p])
    /\ call[p].log[1].val[1].expires # None
    /\ call[p].log[2] = CallEv("authenticate", call[p].log[1].val[1].provider,
                               call[p].log[1].val[1].state)
    /\ call[p].result = Result("succeeded", "undefined", 0)
    /\ store # None
    /\ store[1].state = call[p].log[1].val[1].state

\* The request read a session whose provider the registry does not hold.
ReadStaleSession(c) ==
  /\ c.log # <<>>
  /\ c.log[1].op = "get"
  /\ c.log[1].val # None
  /\ c.log[1].val[1].provider \notin Range(providers)

\* C12: a call that reads a session naming a provider that is not in the
\* registry clears the store right after the read and goes on without a
\* session: every provider it calls is configured and is passed no state, the
\* store stays empty until the call writes a session of its own, login calls
\* its target alone, authenticate calls the providers in configured order,
\* and logout does what it does with no session.
C12_StaleSessionPurged ==
  \A p \in Procs :
    LET c == call[p]
        calls == AuthenticateCalls(c)
    IN ReadStaleSession(c)
       => /\ Len(c.log) >= 2
          /\ c.log[2] = ClearEv
          /\ c.session = None
          /\ \A i \in CallsAt(c.log) :
               /\ c.log[i].who \in Range(providers)
               /\ c.log[i].arg \in {"null", "undefined"}
          /\ (\A i \in 1..Len(c.log) : c.log[i].op # "set") => store = None
          /\ c.op = "login"
               => /\ CallsAt(c.log) = {3}
                  /\ c.log[3] = CallEv("login", c.attempt, "null")
          /\ c.op = "authenticate"
               => /\ Len(calls) >= 1
                  /\ Len(calls) <= Len(providers)
                  /\ \A i \in 1..Len(calls) :
                       calls[i] = CallEv("authenticate", providers[i], "null")
          /\ c.op = "logout"
               => IF c.samlq /\ "saml" \in Range(providers)
                  THEN /\ CallsAt(c.log) = {3}
                       /\ c.log[3] = CallEv("logout", "saml", "undefined")
                  ELSE /\ c.log = <<c.log[1], ClearEv>>
                       /\ c.pc = "done"
                       /\ c.result.kind = "notHandled"

C12_Witness ==
  \E p \in Procs :
    /\ call[p].op = "authenticate"
    /\ call[p].pc = "done"
    /\ ReadStaleSession(call[p])
    /\ call[p].log[1].val[1].provider \in ProviderTypes
    /\ Len(AuthenticateCalls(call[p])) = 2
    /\ Len(providers) = 2

\* C13: a call in which a provider was called never ends by throwing: the
\* only calls that throw are those that failed a precondition.
C13_ProviderFailureIsAnOutcome ==
  \A p \in Procs : CallsAt(call[p].log) # {} => call[p].pc # "threw"

\* C14: every provider.authenticate call of a request is passed the state of
\* the session the request read if the provider called owns that session,
\* and null otherwise.
C14_StateOnlyToOwner ==
  \A p \in Procs :
    LET c == call[p]
    IN c.op = "authenticate"
       => \A i \in CallsAt(c.log) :
            c.log[i].arg =
              IF ReadValidSession(c) /\ c.log[i].who = c.log[1].val[1].provider
              THEN c.log[1].val[1].state
              ELSE "null"

C14_Witness ==
  \E p \in Procs :
    /\ call[p].op = "authenticate"
    /\ ReadValidSession(call[p])
    /\ Len(AuthenticateCalls(call[p])) = 3
    /\ call[p].log[1].val[1].provider = providers[2]
    /\ AuthenticateCalls(call[p])[1].arg = call[p].log[1].val[1].state
    /\ AuthenticateCalls(call[p])[3].arg = "null"

\* C15: while a login or authenticate call that read an empty store is
\* running, and after it threw, the store is still empty; after it returned
\* the store holds a session only if the returned outcome is succeeded or
\* redirected and asks for a state update, and the session holds that state.
C15_CreatedOnlyByUpdate ==
  \A p \in Procs :
    LET c == call[p]
    IN (/\ c.op \in {"login", "authenticate"}
        /\ c.log # <<>>
        /\ c.log[1] = GetEv(None))
       => /\ c.pc # "done" => store = None
          /\ (c.pc = "done" /\ store # None)
               => /\ c.result.kind \in {"succeeded", "redirected"}
                  /\ c.result.state \in States
                  /\ store[1].state = c.result.state

C15_Witness ==
  \E p \in Procs :
    /\ call[p].op = "authenticate"
    /\ call[p].pc = "done"
    /\ call[p].log[1] = GetEv(None)
    /\ call[p].result.kind = "redirected"
    /\ store # None

\* The outcome the finished login or authenticate call of c returned asks for
\* the persisted state to be cleared, and a session was in the store when the
\* call read it.
ClearRequestedWithSession(c) ==
  /\ c.op \in {"login", "authenticate"}
  /\ c.pc = "done"
  /\ c.result # NoResult
  /\ shouldClearState(c.result)
  /\ c.log # <<>>
  /\ c.log[1].op = "get"
  /\ c.log[1].val # None

\* C16 as stated: after a login or authenticate call whose returned outcome
\* asks for clearing, the session that existed when the call started is gone
\* from the store, whichever provider owned it.
C16_ClearRequestClearsAnySession ==
  \A p \in Procs : ClearRequestedWithSession(call[p]) => store = None

\* C16 as amended: after a call whose returned outcome asks for clearing, the
\* session that existed when the call started is gone from the store if the
\* call is a login, or if the provider that returned the outcome owns the
\* session, or if the session names a provider that is not configured; after
\* an authenticate in which a provider that does not own the session asked for
\* clearing, the session is still in the store, unchanged.
C16_ClearRequestClearsOwnedSession ==
  \A p \in Procs :
    LET c == call[p]
    IN ClearRequestedWithSession(c)
       => IF \/ c.op = "login"
             \/ c.log[1].val[1].provider \notin Range(providers)
             \/ c.log[1].val[1].provider = LastActing(c)
          THEN store = None
          ELSE store = c.log[1].val

C16_Witness ==
  \E p \in Procs :
    /\ ClearRequestedWithSession(call[p])
    /\ call[p].op = "authenticate"
    /\ call[p].log[1].val[1].provider = LastActing(call[p])
    /\ call[p].log[Len(call[p].log)].op = "clear"
    /\ store = None

\* C17: a login call with a malformed request, or with an attempt whose
\* provider name is missing, throws in its first step: it has read and written
\* nothing in the store, has called no provider, has no outcome, and the store
\* is what it was.
C17_LoginPreconditions ==
  [][\A p \in Procs :
       (/\ Free(p)
        /\ call'[p] # call[p]
        /\ call'[p].op = "login"
        /\ (~call'[p].valid \/ call'[p].attempt = ""))
       => /\ call'[p].pc = "threw"
          /\ call'[p].log = <<>>
          /\ call'[p].result = NoResult
          /\ store' = store]_vars

C17_Witness ==
  \E p \in Procs :
    /\ call[p].op = "login"
    /\ call[p].pc = "threw"
    /\ call[p].valid
    /\ call[p].attempt = ""
    /\ call[p].log = <<>>
    /\ store # None

\* The first place of a name in a configured list.
FirstAt(cfg, name) ==
  CHOOSE i \in 1..Len(cfg) :
    /\ cfg[i] = name
    /\ \A j \in 1..(i - 1) : cfg[j] # name

\* C18: when the configured list is empty or holds a name that is not a
\* recognized mechanism, construction failed: there is no registry and no
\* operation ever runs; otherwise the registry holds each configured name
\* once, and nothing else, in the order in which the names are configured.
C18_ConstructionAllOrNothing ==
  IF \/ authProviders = <<>>
     \/ \E i \in 1..Len(authProviders) : authProviders[i] \notin ProviderTypes
  THEN /\ instance = "failed"
       /\ providers = <<>>
       /\ \A p \in Procs : call[p] = IdleCall
  ELSE /\ instance = "ok"
       /\ Range(providers) = Range(authProviders)
       /\ NoRepeat(providers)
       /\ \A i, j \in 1..Len(providers) :
            i < j => FirstAt(authProviders, providers[i])
                       < FirstAt(authProviders, providers[j])
       /\ NoRepeat(authProviders) => providers = authProviders

C18_Witness ==
  /\ instance = "failed"
  /\ Len(authProviders) = MaxProviders
  /\ authProviders[1] \in ProviderTypes
  /\ authProviders[2] \in ProviderTypes
  /\ providers = <<>>

\* The log of request p grows in this step by the return of who's call with
\* outcome r.
Resolves(p, who, r) ==
  /\ Len(call'[p].log) > Len(call[p].log)
  /\ call'[p].log[Len(call[p].log) + 1] = ReturnEv(who, r)

\* The log of an authenticate call that read no session and is waiting for
\* token, and the log of one that then got not-handled from token and is
\* waiting for saml.
ScenarioAtToken ==
  <<GetEv(None), CallEv("authenticate", "token", "null")>>
ScenarioAtSaml ==
  ScenarioAtToken
    \o <<ReturnEv("token", Result("notHandled", "undefined", 0)),
         CallEv("authenticate", "saml", "null")>>

\* C19: with providers [token, saml] and ttl = 60 minutes, an authenticate
\* of a well-formed non-system request that finds the store empty calls
\* token.authenticate first, with no state; when that returns not-handled,
\* saml.authenticate is called next, with no state and the store untouched;
\* when that returns redirected with state s1, authenticate returns that
\* outcome right after storing provider saml, state s1, expires now + 3600000.
C19_Scenario ==
  [][\A p \in Procs :
       /\ (/\ Free(p)
           /\ call'[p] # call[p]
           /\ call'[p].op = "authenticate"
           /\ call'[p].valid
           /\ store = None)
          => /\ call'[p].pc = "authenticate_provider"
             /\ call'[p].log = ScenarioAtToken
             /\ store' = None
       /\ (/\ call[p].log = ScenarioAtToken
           /\ Resolves(p, "token", Result("notHandled", "undefined", 0)))
          => /\ call'[p].pc = "authenticate_provider"
             /\ call'[p].log = ScenarioAtSaml
             /\ store' = None
       /\ (/\ call[p].log = ScenarioAtSaml
           /\ ~call[p].sys
           /\ Resolves(p, "saml", Result("redirected", "s1", 0)))
          => LET stored == Some(ProviderSession("saml", Some(now + 3600000), "s1"))
             IN /\ call'[p].pc = "done"
                /\ call'[p].result = Result("redirected", "s1", 0)
                /\ call'[p].log
                     = ScenarioAtSaml
                         \o <<ReturnEv("saml", Result("redirected", "s1", 0)),
                              SetEv(stored)>>
                /\ store' = stored]_vars

C19_Witness ==
  \E p \in Procs :
    /\ call[p].op = "authenticate"
    /\ call[p].pc = "done"
    /\ ~call[p].sys
    /\ Len(call[p].log) = 6
    /\ SubSeq(call[p].log, 1, 4) = ScenarioAtSaml
    /\ call[p].result = Result("redirected", "s1", 0)
    /\ store = Some(ProviderSession("saml", Some(now + 3600000), "s1"))

\* Request p starts, in this step, a well-formed login that targets the
\* configured provider name.
StartsLogin(p, name) ==
  /\ Free(p)
  /\ call'[p] # call[p]
  /\ call'[p].op = "login"
  /\ call'[p].valid
  /\ call'[p].attempt = name
  /\ name \in Range(providers)

\* C20: a login that returns redirected with a state to store leaves that
\* state in the store under the login's provider; the login that follows it
\* with the same target, the store not having been touched in between, reads
\* that session and calls the provider's login with exactly that state; a
\* login that finds the store empty calls the provider's login with no state.
C20_MultiStepLogin ==
  [][\A p \in Procs :
       /\ (/\ ReturnsNow(p)
           /\ call[p].op = "login"
           /\ redirected(Outcome(p))
           /\ shouldUpdateState(Outcome(p)))
          => /\ store' # None
             /\ store'[1].provider = call[p].attempt
             /\ store'[1].state = Outcome(p).state
       /\ (/\ LoginStored(call[p])
           /\ redirected(call[p].result)
           /\ StartsLogin(p, call[p].attempt))
          => /\ call'[p].pc = "login_provider"
             /\ call'[p].log
                  = <<GetEv(store),
                      CallEv("login", call[p].attempt, call[p].result.state)>>
             /\ store' = store
       /\ \A name \in ProviderTypes :
            (StartsLogin(p, name) /\ store = None)
            => /\ call'[p].pc = "login_provider"
               /\ call'[p].log = <<GetEv(None), CallEv("login", name, "null")>>
               /\ store' = None]_vars

C20_Witness ==
  \E p \in Procs :
    /\ call[p].op = "login"
    /\ call[p].pc = "login_provider"
    /\ Len(call[p].log) = 2
    /\ call[p].log[1].op = "get"
    /\ call[p].log[1].val # None
    /\ call[p].log[1].val[1].expires # None
    /\ call[p].log[1].val[1].provider = call[p].attempt
    /\ call[p].log[2] = CallEv("login", call[p].attempt, call[p].log[1].val[1].state)

\* The outcome that resolves in this step is a failure that is not
\* unauthorized and asks neither for an update nor for clearing.
PlainFailureNow(p) ==
  /\ ReturnsNow(p)
  /\ failed(Outcome(p))
  /\ getErrorStatusCode(Outcome(p)) # Unauthorized
  /\ ~shouldUpdateState(Outcome(p))
  /\ ~shouldClearState(Outcome(p))

\* C21: when the provider called by login or authenticate fails with an error
\* that is not unauthorized, the call returns that outcome having done no set
\* and no clear after it, and the store is what it was; when the provider owns
\* the session the call read, that session is still in the store with its
\* provider, state and expiry.
C21_OnlyUnauthorizedInvalidates ==
  [][\A p \in Procs :
       PlainFailureNow(p)
       => /\ call'[p].log = Append(call[p].log, ReturnEv(Acting(p), Outcome(p)))
          /\ call'[p].result = Outcome(p)
          /\ store' = store
          /\ (/\ ReadValidSession(call[p])
              /\ call[p].log[1].val[1].provider = Acting(p))
             => store' = call[p].log[1].val]_vars

C21_Witness ==
  \E p \in Procs :
    /\ call[p].op = "authenticate"
    /\ call[p].pc = "done"
    /\ ~call[p].sys
    /\ failed(call[p].result)
    /\ getErrorStatusCode(call[p].result) # Unauthorized
    /\ ReadValidSession(call[p])
    /\ call[p].log[1].val[1].provider = LastActing(call[p])
    /\ call[p].log[1].val[1].expires # None
    /\ store = call[p].log[1].val

\* C22: with the store empty at construction, the envelope in the store, if
\* there is one, names a provider of the registry, and every set a call
\* performed wrote a provider of the registry.
C22_StoredProviderConfigured ==
  /\ store # None => store[1].provider \in Range(providers)
  /\ \A p \in Procs : \A i \in 1..Len(call[p].log) :
       call[p].log[i].op = "set"
       => call[p].log[i].val[1].provider \in Range(providers)

C22_Witness ==
  \E p \in Procs :
    /\ Len(providers) < MaxProviders
    /\ call[p].op = "login"
    /\ call[p].pc = "done"
    /\ call[p].log # <<>>
    /\ call[p].log[Len(call[p].log)].op = "set"
    /\ store = call[p].log[Len(call[p].log)].val
    /\ store[1].provider \in Range(providers)

\* The finished authenticate call of c read a session whose owner is not the
\* first configured provider, and called the owner first.
ReorderedDone(c) ==
  /\ c.op = "authenticate"
  /\ c.pc = "done"
  /\ ReadValidSession(c)
  /\ c.log[1].val[1].provider # providers[1]
  /\ c.log[2] = CallEv("authenticate", c.log[1].val[1].provider, c.log[1].val[1].state)

\* C23: no step changes the registry or the configured list; the authenticate
\* that follows one that called a session's owner out of configured order,
\* and that finds the store empty, starts with the first configured provider;
\* and every authenticate that read no session calls the providers in
\* configured order.
C23_RegistryOrderUntouched ==
  [][/\ providers' = providers
     /\ authProviders' = authProviders
     /\ \A p \in Procs :
          /\ (/\ ReorderedDone(call[p])
              /\ call'[p] # call[p]
              /\ call'[p].op = "authenticate"
              /\ call'[p].valid
              /\ store = None)
             => call'[p].log
                  = <<GetEv(None), CallEv("authenticate", providers[1], "null")>>
          /\ (/\ call'[p].op = "authenticate"
              /\ call'[p].log # <<>>
              /\ call'[p].log[1] = GetEv(None))
             => LET calls == AuthenticateCalls(call'[p])
                IN /\ Len(calls) <= Len(providers)
                   /\ \A i \in 1..Len(calls) : calls[i].who = providers[i]]_vars

C23_Witness ==
  \E p \in Procs :
    /\ ReorderedDone(call[p])
    /\ AuthenticateCalls(call[p])[1].who # providers[1]
    /\ providers = MapKeys(authProviders)
    /\ store = None

\* C24: when a logout and an authenticate that read the same session have
\* both completed, the store is empty.
C24_LogoutIsFinal ==
  \A p, q \in Procs :
    (/\ p # q
     /\ call[p].op = "logout"
     /\ call[p].pc = "done"
     /\ ReadValidSession(call[p])
     /\ call[q].op = "authenticate"
     /\ call[q].pc = "done"
     /\ ReadValidSession(call[q])
     /\ call[q].log[1].val = call[p].log[1].val)
    => store = None

\* In this step an authenticate call that read a session returns the outcome
\* of a provider that does not own the session, after the owner, called
\* first, returned not-handled; the outcome is succeeded or redirected and
\* carries no state to store.
NonOwnerSucceedsNow(p) ==
  /\ ReturnsNow(p)
  /\ call[p].op = "authenticate"
  /\ ReadValidSession(call[p])
  /\ Len(call[p].log) >= 3
  /\ call[p].log[3]
       = ReturnEv(call[p].log[1].val[1].provider, Result("notHandled", "undefined", 0))
  /\ Acting(p) # call[p].log[1].val[1].provider
  /\ succeeded(Outcome(p)) \/ redirected(Outcome(p))
  /\ ~shouldUpdateState(Outcome(p))

\* C25: when the owner of the session returned not-handled and a later
\* provider returns succeeded or redirected with no state to store, the
\* authenticate call has done no set and no clear and the store holds the
\* session it read: the owner's name, its state and its expiry.
C25_NonOwnerLeavesSession ==
  [][\A p \in Procs :
       NonOwnerSucceedsNow(p)
       => /\ store' = call[p].log[1].val
          /\ store' = store
          /\ MutationsAt(call'[p].log) = {}
          /\ call'[p].result = Outcome(p)]_vars

C25_Witness ==
  \E p \in Procs :
    /\ call[p].op = "authenticate"
    /\ call[p].pc = "done"
    /\ ~call[p].sys
    /\ ReadValidSession(call[p])
    /\ call[p].log[1].val[1].expires # None
    /\ LastActing(call[p]) # call[p].log[1].val[1].provider
    /\ succeeded(call[p].result)
    /\ ~shouldUpdateState(call[p].result)
    /\ store = call[p].log[1].val
    /\ store[1].expires[1] < now + ttl[1]

\* C26: in every state of the wizard 1 <= currentStep <= 5 and
\* maxCompletedStep = currentStep - 1; a step that raises currentStep is a
\* run of onNext that raises it by one and leaves a valid validation result;
\* a run of updateCurrentStep with a step in 1..5 never raises currentStep.
C26_WizardSteps ==
  /\ [](/\ 1 <= currentStep
        /\ currentStep <= 5
        /\ maxCompletedStep = currentStep - 1)
  /\ [][/\ currentStep' > currentStep
          => /\ handler' = "onNext"
             /\ currentStep' = currentStep + 1
             /\ validation'.isValid
        /\ handler' = "updateCurrentStep" => currentStep' <= currentStep]_vars

C26_Witness ==
  /\ handler = "updateCurrentStep"
  /\ currentStep = 3
  /\ maxCompletedStep = 2
  /\ template.mappings = "m1"
  /\ ~validation.isValid

====
